---- MODULE Spec2Model ----
(***************************************************************************)
(* wineapi: the reservation ledger, the cancellation life cycle, the       *)
(* recurrence expansion of events and the winery reports, from             *)
(* api/views.py and api/models.py.                                         *)
(*                                                                         *)
(* Spec        the cancel handlers and ReservationView.create, each run to *)
(*             completion, one request at a time.                          *)
(* SpecLedger  ReservationView.create alone, run to completion.            *)
(* SpecConc    ReservationView.create split at its database accesses: two  *)
(*             requests interleave, and a request may die between accesses.*)
(* SpecDates   Event.calculate_dates_in_threshold on every schedule drawn. *)
(* SpecEvents  EventsView.create over requests of one or two schedules.    *)
(* SpecReport  ReportsView.get over histories of reservations and ratings. *)
(* SpecRanking ReportsView.get over histories with more rated event names  *)
(*             than a ranking keeps.                                       *)
(* SpecBooked  ReportsView.get over histories with more reserved event     *)
(*             names than a ranking keeps, two events sharing a name.      *)
(* SpecCancelled  ReportsView.get over the ledger, with reservations,      *)
(*             occurrences and events cancelled by their owners.           *)
(* SpecWinery  the approval of wineries: WineryView, WineryApprovalView.   *)
(*                                                                         *)
(* A handler is an operator from the tables to its Result (the Response    *)
(* and the tables it leaves); the actions commit a handler's Result.       *)
(***************************************************************************)
EXTENDS Integers, Sequences, FiniteSets, TLC

\* ------------------------------------------------------------------ bounds
MaxReservations == 2     \* reservation rows ever created
MaxAttendees == 2        \* largest attendee_number of a request
InitVacancies == 2       \* vacancies every occurrence starts with
MaxTime == 3             \* last reading of the clock
MaxDay == 20             \* last date (as date.toordinal()) a schedule is drawn from
MaxScheduleDay == 3      \* last date of the schedules of a create-event request
MaxRatings == 1          \* Rate rows ever created (SpecReport)
MaxRankEvents == 11      \* events of winery w1 that are rated (SpecRanking)
MaxEvents == 2           \* Event rows ever created by EventsView.create
MaxWineries == 3         \* Winery rows ever created

\* ------------------------------------------------------ rows and requests
\* A nullable DateTimeField holds Null or a reading of the clock (1..MaxTime).
Null == 0

\* Python's None, for a reason that was not given / a user without winery.
None == "None"

DEFAULT_CANCELLATION_REASON == "DEFAULT_CANCELLATION_REASON"

\* request.data without the key 'reason'
Absent == "absent"

RequestReasons == {Absent, "r1"}

Wineries == {"w1", "w2"}

Events == {"e1", "e2"}

Occurrences == {"o1", "o2"}

Tourists == {"t1", "t2"}

WineryUsers == {"wu1", "wu2"}

Users == Tourists \cup WineryUsers

\* getattr(request.user, 'winery', None)
UserWinery(user) ==
    CASE user = "wu1" -> "w1"
      [] user = "wu2" -> "w2"
      [] OTHER -> None

\* Event.winery
EventWinery(event) == IF event = "e1" THEN "w1" ELSE "w2"

\* EventOccurrence.event
OccurrenceEvent(occurrence) == IF occurrence = "o1" THEN "e1" ELSE "e2"

Procs == {"p1", "p2"}

VARIABLES
    events,        \* Event rows: [cancelled, cancellation_reason]
    occurrences,   \* EventOccurrence rows: [vacancies, cancelled, cancellation_reason]
    reservations,  \* Reservation rows in order of id
    now,           \* datetime.now()
    requests,      \* SpecConc: each worker's position in ReservationView.create
    schedule,      \* SpecDates: the arguments of calculate_dates_in_threshold
    dates,         \* SpecDates: what the call did
    created,       \* SpecEvents: the Event and EventOccurrence rows EventsView.create wrote
    history,       \* the reports: the Reservation and Rate rows, joined
    wineries       \* SpecWinery: Winery rows in order of id: [name, available_since]

vars == <<events, occurrences, reservations, now, requests,
          schedule, dates, created, history, wineries>>

\* What the ledger and the cancellation handlers never touch.
planning == <<schedule, dates, created, history, wineries>>

IdleRequest ==
    [pc |-> "idle", user |-> None, event_occurrence |-> "o1", attendee_number |-> 0,
     local |-> [vacancies |-> 0, cancelled |-> Null, cancellation_reason |-> None]]

\* No call of calculate_dates_in_threshold yet.
NoSchedule == [start |-> Null, end |-> Null, weekdays |-> [given |-> FALSE, days |-> {}]]

NotCalled == [pc |-> "idle", raised |-> FALSE, value |-> << >>]

NoRows == [events |-> << >>, occurrences |-> << >>]

NoHistory == [reservations |-> << >>, ratings |-> << >>]

NoPlanning ==
    /\ schedule = NoSchedule
    /\ dates = NotCalled
    /\ created = NoRows
    /\ history = NoHistory
    /\ wineries = << >>

EmptyLedger ==
    /\ events = [e \in Events |-> [cancelled |-> Null, cancellation_reason |-> None]]
    /\ occurrences = [o \in Occurrences |->
           [vacancies |-> InitVacancies, cancelled |-> Null, cancellation_reason |-> None]]
    /\ reservations = << >>
    /\ now = 1
    /\ requests = [p \in Procs |-> IdleRequest]

Init == EmptyLedger /\ NoPlanning

\* ------------------------------------------------------- responses, results
Response(status, detail) == [status |-> status, detail |-> detail]

Created == Response(201, "url")

BadRequest == Response(400, "errors")

PermissionDenied == Response(403, "Permission Denied")

AccessDenied == Response(403, "Access Denied")

\* What a handler leaves behind: its Response and the three tables.
Result(resp, ev, oc, rs) ==
    [response |-> resp, events |-> ev, occurrences |-> oc, reservations |-> rs]

\* A handler that returns before it writes.
Returns(resp) == Result(resp, events, occurrences, reservations)

\* ----------------------------------------------------------- model methods
\* request.data.get('reason', default)
DataGet(data, default) == IF data = Absent THEN default ELSE data

\* <entity>.cancel(reason): records the time and the reason it is handed. It is
\* taken not to raise, so the handlers' except branches (400) are not modelled.
Cancel(row, reason) == [row EXCEPT !.cancelled = now, !.cancellation_reason = reason]

\* The confirmation <entity>.cancel(reason) returns.
CancelMessage(kind) == "cancelled: " \o kind

\* ReservationSerializer.is_valid(): the occurrence exists, attendee_number >= 1.
IsValid(data) ==
    /\ data.event_occurrence \in Occurrences
    /\ data.attendee_number >= 1

\* ReservationSerializer.create(validated_data, user_id): the new Reservation row.
SerializerCreate(data, user) ==
    [user |-> user, event_occurrence |-> data.event_occurrence,
     attendee_number |-> data.attendee_number,
     cancelled |-> Null, cancellation_reason |-> None]

\* ------------------------------------------------ ReservationView (views.py)
\* create with an oversell guard: a request for more than is left is refused.
CreateRejectsOversold(data) ==
    \/ ~IsValid(data)
    \/ data.attendee_number > occurrences[data.event_occurrence].vacancies

\* create: the 400 answer of an invalid serializer.
CreateRejects(data) == ~IsValid(data)

\* One seat per reservation, whatever its attendee number.
DecrementByOne(vacancies, attendee_number) == vacancies - 1

\* create: event_occurrence.vacancies -= int(request.data["attendee_number"])
Decrement(vacancies, attendee_number) == vacancies - attendee_number

\* ReservationView.create, run to completion.
ReservationView_create(user, data) ==
    IF CreateRejects(data)
    THEN Returns(BadRequest)
    ELSE Result(Created,
                events,
                [occurrences EXCEPT ![data.event_occurrence].vacancies =
                     Decrement(@, data.attendee_number)],
                Append(reservations, SerializerCreate(data, user)))

\* cancel_reservation: the 403 of a user who is not the reservation's user.
NotReservationUser(reservation, user) == reservation.user # user

\* cancel_reservation that gives the reservation's seats back to its occurrence.
ReservationView_cancel_reservation_refund(user, pk, data) ==
    IF NotReservationUser(reservations[pk], user)
    THEN Returns(PermissionDenied)
    ELSE Result(Response(200, CancelMessage("reservation")),
                events,
                [occurrences EXCEPT ![reservations[pk].event_occurrence].vacancies =
                     @ + reservations[pk].attendee_number],
                [reservations EXCEPT ![pk] =
                     Cancel(@, DataGet(data, DEFAULT_CANCELLATION_REASON))])

\* ReservationView.cancel_reservation
ReservationView_cancel_reservation(user, pk, data) ==
    IF NotReservationUser(reservations[pk], user)
    THEN Returns(PermissionDenied)
    ELSE Result(Response(200, CancelMessage("reservation")),
                events,
                occurrences,
                [reservations EXCEPT ![pk] =
                     Cancel(@, DataGet(data, DEFAULT_CANCELLATION_REASON))])

\* --------------------------------------- EventReservationsView (views.py)
\* Any user of any winery passes.
NotAnyWinery(reservation, user) == UserWinery(user) = None

\* cancel_reservation: the 403 of a user whose winery does not own the event.
NotReservationWinery(reservation, user) ==
    EventWinery(OccurrenceEvent(reservation.event_occurrence)) # UserWinery(user)

\* EventReservationsView.cancel_reservation
EventReservationsView_cancel_reservation(user, pk, data) ==
    IF NotReservationWinery(reservations[pk], user)
    THEN Returns(PermissionDenied)
    ELSE Result(Response(200, CancelMessage("reservation")),
                events,
                occurrences,
                [reservations EXCEPT ![pk] = Cancel(@, DataGet(data, None))])

\* ------------------------------------------------------ EventsView (views.py)
\* Any user of any winery passes.
NotWineryUser(user, winery) == UserWinery(user) = None

\* cancel_event / cancel_occurrence: the 403 of a user outside the owning winery.
NotOwningWinery(user, winery) == UserWinery(user) = None \/ UserWinery(user) # winery

\* cancel_event that also cancels the event's occurrences.
EventsView_cancel_event_cascade(user, pk, data) ==
    IF events[pk].cancelled # Null
    THEN Returns(Response(200, "Event already cancelled"))
    ELSE IF NotOwningWinery(user, EventWinery(pk))
    THEN Returns(AccessDenied)
    ELSE Result(Response(200, CancelMessage("event")),
                [events EXCEPT ![pk] =
                     Cancel(@, DataGet(data, DEFAULT_CANCELLATION_REASON))],
                [o \in Occurrences |->
                     IF OccurrenceEvent(o) = pk
                     THEN Cancel(occurrences[o], DataGet(data, DEFAULT_CANCELLATION_REASON))
                     ELSE occurrences[o]],
                reservations)

\* EventsView.cancel_event
EventsView_cancel_event(user, pk, data) ==
    IF events[pk].cancelled # Null
    THEN Returns(Response(200, "Event already cancelled"))
    ELSE IF NotOwningWinery(user, EventWinery(pk))
    THEN Returns(AccessDenied)
    ELSE Result(Response(200, CancelMessage("event")),
                [events EXCEPT ![pk] =
                     Cancel(@, DataGet(data, DEFAULT_CANCELLATION_REASON))],
                occurrences,
                reservations)

\* ------------------------------------------- EventOccurrencesView (views.py)
\* cancel_occurrence that answers a repeated cancel with an error.
EventOccurrencesView_cancel_occurrence_strict(user, pk, data) ==
    IF occurrences[pk].cancelled # Null
    THEN Returns(Response(400, "Occurrence already cancelled"))
    ELSE IF NotOwningWinery(user, EventWinery(OccurrenceEvent(pk)))
    THEN Returns(AccessDenied)
    ELSE Result(Response(200, CancelMessage("occurrence")),
                events,
                [occurrences EXCEPT ![pk] = Cancel(@, DataGet(data, None))],
                reservations)

\* EventOccurrencesView.cancel_occurrence
EventOccurrencesView_cancel_occurrence(user, pk, data) ==
    IF occurrences[pk].cancelled # Null
    THEN Returns(Response(200, "Occurrence already cancelled"))
    ELSE IF NotOwningWinery(user, EventWinery(OccurrenceEvent(pk)))
    THEN Returns(AccessDenied)
    ELSE Result(Response(200, CancelMessage("occurrence")),
                events,
                [occurrences EXCEPT ![pk] = Cancel(@, DataGet(data, None))],
                reservations)

\* --------------------------------------- RestaurantOccurrencesView (views.py)
\* RestaurantOccurrencesView.cancel_occurrence
RestaurantOccurrencesView_cancel_occurrence(user, pk, data) ==
    IF occurrences[pk].cancelled # Null
    THEN Returns(Response(200, "Occurrence already cancelled"))
    ELSE IF NotOwningWinery(user, EventWinery(OccurrenceEvent(pk)))
    THEN Returns(AccessDenied)
    ELSE Result(Response(200, CancelMessage("occurrence")),
                events,
                [occurrences EXCEPT ![pk] = Cancel(@, DataGet(data, None))],
                reservations)

\* ------------------------------------------------------ listings (views.py)
\* EventOccurrence.start, on the clock's scale: o1 starts last, o2 early.
OccurrenceStart(occurrence) == IF occurrence = "o1" THEN MaxTime ELSE 2

\* EventOccurrencesView.get_queryset: the occurrences of event_pk that are not
\* cancelled, and for a user of the event's winery the cancelled ones too.
EventOccurrencesView_get_queryset(user, event_pk) ==
    LET occurrences_ == {o \in Occurrences :
                            OccurrenceEvent(o) = event_pk /\ occurrences[o].cancelled = Null}
        user_winery == UserWinery(user)
        cancelled_occurrences ==
            IF user_winery # None /\ user_winery = EventWinery(event_pk)
            THEN {o \in Occurrences :
                     OccurrenceEvent(o) = event_pk /\ occurrences[o].cancelled # Null}
            ELSE {}
    IN  occurrences_ \cup cancelled_occurrences

\* EventsView.get_queryset: a winery's user gets the winery's events; anyone
\* else the events not cancelled that have a future occurrence not cancelled.
EventsView_get_queryset(user) ==
    IF UserWinery(user) # None
    THEN {e \in Events : EventWinery(e) = UserWinery(user)}
    ELSE {e \in Events :
             /\ \E o \in Occurrences :
                    /\ OccurrenceEvent(o) = e
                    /\ OccurrenceStart(o) > now
                    /\ occurrences[o].cancelled = Null
             /\ events[e].cancelled = Null}

\* WineryView.events: the winery's events not cancelled that have a future
\* occurrence, and for a user of that winery all its events.
WineryView_events(user, pk) ==
    LET events_ == {e \in Events :
                       /\ \E o \in Occurrences :
                              OccurrenceEvent(o) = e /\ OccurrenceStart(o) > now
                       /\ EventWinery(e) = pk
                       /\ events[e].cancelled = Null}
        own_events == IF UserWinery(user) # None /\ UserWinery(user) = pk
                      THEN {e \in Events : EventWinery(e) = pk}
                      ELSE {}
    IN  events_ \cup own_events

\* ------------------------------------------- the requests, one at a time
ReserveData == [event_occurrence : Occurrences, attendee_number : 0..MaxAttendees]

\* The cancellation handlers never read attendee_number: one valid value, one invalid.
SeatData == [event_occurrence : Occurrences, attendee_number : {0, MaxAttendees}]

Wrote(result) ==
    <<result.events, result.occurrences, result.reservations>>
        # <<events, occurrences, reservations>>

\* The tables after a handler; a handler that called cancel() read the clock.
Commit(result, clock) ==
    /\ events' = result.events
    /\ occurrences' = result.occurrences
    /\ reservations' = result.reservations
    /\ now' = IF clock /\ Wrote(result) THEN now + 1 ELSE now
    /\ UNCHANGED <<requests, planning>>

Reserve ==
    \E user \in Users, data \in ReserveData :
        LET result == ReservationView_create(user, data) IN
        /\ Len(result.reservations) <= MaxReservations
        /\ Commit(result, FALSE)

ReserveSeat ==
    \E user \in Tourists, data \in SeatData :
        LET result == ReservationView_create(user, data) IN
        /\ Len(result.reservations) <= MaxReservations
        /\ Commit(result, FALSE)

CancelReservationByTourist ==
    \E user \in Users, pk \in 1..Len(reservations), data \in RequestReasons :
        LET result == ReservationView_cancel_reservation(user, pk, data) IN
        /\ Wrote(result) => now < MaxTime
        /\ Commit(result, TRUE)

CancelReservationByWinery ==
    \E user \in Users, pk \in 1..Len(reservations), data \in RequestReasons :
        LET result == EventReservationsView_cancel_reservation(user, pk, data) IN
        /\ Wrote(result) => now < MaxTime
        /\ Commit(result, TRUE)

CancelEvent ==
    \E user \in Users, pk \in Events, data \in RequestReasons :
        LET result == EventsView_cancel_event(user, pk, data) IN
        /\ Wrote(result) => now < MaxTime
        /\ Commit(result, TRUE)

CancelOccurrence ==
    \E user \in Users, pk \in Occurrences, data \in RequestReasons :
        LET result == EventOccurrencesView_cancel_occurrence(user, pk, data) IN
        /\ Wrote(result) => now < MaxTime
        /\ Commit(result, TRUE)

CancelRestaurantOccurrence ==
    \E user \in Users, pk \in Occurrences, data \in RequestReasons :
        LET result == RestaurantOccurrencesView_cancel_occurrence(user, pk, data) IN
        /\ Wrote(result) => now < MaxTime
        /\ Commit(result, TRUE)

\* The cancellation life cycle, with reservations to cancel.
Next ==
    \/ ReserveSeat
    \/ CancelReservationByTourist
    \/ CancelReservationByWinery
    \/ CancelEvent
    \/ CancelOccurrence
    \/ CancelRestaurantOccurrence

Spec == Init /\ [][Next]_vars

\* The reservation ledger alone.
NextLedger == Reserve

SpecLedger == Init /\ [][NextLedger]_vars

\* ------------------------- ReservationView.create, one database access at a time
\* An update in place (vacancies = F('vacancies') - n) of the stored row.
SavedInPlace(local, stored, attendee_number) ==
    [stored EXCEPT !.vacancies = Decrement(@, attendee_number)]

\* event_occurrence.save() writes the row the request holds, vacancies lowered,
\* over the stored row.
Saved(local, stored, attendee_number) ==
    [local EXCEPT !.vacancies = Decrement(@, attendee_number)]

\* serializer.is_valid() and serializer.create(): the reservation row is stored.
CreateStep(p, user, data) ==
    /\ requests[p].pc \in {"idle", "done", "failed"}
    /\ ~CreateRejects(data)
    /\ Len(reservations) < MaxReservations
    /\ reservations' = Append(reservations, SerializerCreate(data, user))
    /\ requests' = [requests EXCEPT ![p] =
           [IdleRequest EXCEPT !.pc = "get", !.user = user,
                               !.event_occurrence = data.event_occurrence,
                               !.attendee_number = data.attendee_number]]
    /\ UNCHANGED <<events, occurrences, now, planning>>

\* get_object_or_404(EventOccurrence, pk=...): the row is read.
GetStep(p) ==
    /\ requests[p].pc = "get"
    /\ requests' = [requests EXCEPT ![p].pc = "save",
                                    ![p].local = occurrences[requests[p].event_occurrence]]
    /\ UNCHANGED <<events, occurrences, reservations, now, planning>>

\* event_occurrence.vacancies -= ...; event_occurrence.save(); the 201 is returned.
SaveStep(p) ==
    /\ requests[p].pc = "save"
    /\ occurrences' = [occurrences EXCEPT ![requests[p].event_occurrence] =
           Saved(requests[p].local, @, requests[p].attendee_number)]
    /\ requests' = [requests EXCEPT ![p].pc = "done"]
    /\ UNCHANGED <<events, reservations, now, planning>>

\* The request dies after the reservation is stored and before the save.
FailStep(p) ==
    /\ requests[p].pc \in {"get", "save"}
    /\ requests' = [requests EXCEPT ![p].pc = "failed"]
    /\ UNCHANGED <<events, occurrences, reservations, now, planning>>

ConcCreate == \E p \in Procs, user \in Tourists, data \in ReserveData : CreateStep(p, user, data)

ConcGet == \E p \in Procs : GetStep(p)

ConcSave == \E p \in Procs : SaveStep(p)

ConcFail == \E p \in Procs : FailStep(p)

NextConc ==
    \/ ConcCreate
    \/ ConcGet
    \/ ConcSave
    \/ ConcFail

SpecConc == Init /\ [][NextConc]_vars

\* ------------------------------- Event.calculate_dates_in_threshold (models.py)
\* A date is its date.toordinal(); a missing date (None) is Null.
Days == 1..MaxDay

\* date.weekday(): 0 is Monday, 6 is Sunday; ordinal 1 is a Monday.
Weekday(day) == (day + 6) % 7

\* The weekdays argument: None, or a collection of weekday indices.
NoWeekdays == [given |-> FALSE, days |-> {}]

WeekdayValues == {NoWeekdays} \cup [given : {TRUE}, days : SUBSET (0..6)]

Schedules == [start : Days, end : {Null} \cup Days, weekdays : WeekdayValues]

\* What a call did: the list it returned, or the exception it raised.
Returned(value) == [pc |-> "done", raised |-> FALSE, value |-> value]

Raised == [pc |-> "done", raised |-> TRUE, value |-> << >>]

\* The range without its last day.
DaysBetweenExclusive(start, end) == end - start

\* days_between = (end - start).days + 1
DaysBetween(start, end) == (end - start) + 1

RECURSIVE DatesLoop(_, _, _, _, _)
\* for i in range(days_between): day = start + timedelta(days=i); the test
\* 'day.weekday() in weekdays' raises TypeError when weekdays is None.
DatesLoop(start, weekdays, i, days_between, acc) ==
    IF i >= days_between THEN Returned(acc)
    ELSE IF ~weekdays.given THEN Raised
    ELSE DatesLoop(start, weekdays, i + 1, days_between,
                   IF Weekday(start + i) \in weekdays.days
                   THEN Append(acc, start + i) ELSE acc)

\* A schedule without end is the range [start, start], filtered like any other.
calculate_dates_in_threshold_filtered(start, end, weekdays) ==
    IF end = Null
    THEN DatesLoop(start, weekdays, 0, DaysBetween(start, start), << >>)
    ELSE DatesLoop(start, weekdays, 0, DaysBetween(start, end), << >>)

\* Event.calculate_dates_in_threshold
calculate_dates_in_threshold(start, end, weekdays) ==
    IF end = Null
    THEN Returned(<<start>>)
    ELSE DatesLoop(start, weekdays, 0, DaysBetween(start, end), << >>)

\* One EventOccurrence row per date, each with the vacancies of the request.
Generate(event, days, vacancies) ==
    [i \in 1..Len(days) |-> [event |-> event, start |-> days[i], vacancies |-> vacancies]]

InitDates ==
    /\ EmptyLedger
    /\ schedule \in Schedules
    /\ dates = NotCalled
    /\ created = NoRows
    /\ history = NoHistory
    /\ wineries = << >>

\* The call of calculate_dates_in_threshold on the schedule.
Expand ==
    /\ dates.pc = "idle"
    /\ dates' = calculate_dates_in_threshold(schedule.start, schedule.end, schedule.weekdays)
    /\ UNCHANGED <<events, occurrences, reservations, now, requests,
                   schedule, created, history, wineries>>

\* The occurrences of the schedule are stored, one per date returned.
Occur ==
    /\ dates.pc = "done"
    /\ ~dates.raised
    /\ dates' = [dates EXCEPT !.pc = "stored"]
    /\ created' = [created EXCEPT !.occurrences = Generate(1, dates.value, InitVacancies)]
    /\ UNCHANGED <<events, occurrences, reservations, now, requests,
                   schedule, history, wineries>>

NextDates ==
    \/ Expand
    \/ Occur

SpecDates == InitDates /\ [][NextDates]_vars

\* ------------------------------------------------- EventsView.create (views.py)
ScheduleWeekdays == {NoWeekdays} \cup [given : {TRUE}, days : {{}, {0, 2}}]

\* The schedules of a request. A schedule with to_date and weekdays None raises
\* inside calculate_dates_in_threshold; what the serializer has written by then
\* is not known, and such schedules are not drawn.
ScheduleSpecs ==
    {s \in [from_date : {Null} \cup 1..MaxScheduleDay,
            to_date : {Null} \cup 1..MaxScheduleDay,
            weekdays : ScheduleWeekdays] : s.to_date = Null \/ s.weekdays.given}

\* A second schedule: without to_date, with to_date, without from_date, and
\* with its to_date before its from_date.
SecondSchedules ==
    {s \in ScheduleSpecs :
        /\ s.weekdays.days \in {{}, {0, 2}}
        /\ <<s.from_date, s.to_date>> \in {<<1, Null>>, <<1, 3>>, <<Null, 3>>, <<2, 1>>}}

\* request.data: the vacancies of every occurrence, and one or two schedules.
EventData ==
    [vacancies : {InitVacancies},
     schedule : {<<s>> : s \in ScheduleSpecs} \cup (ScheduleSpecs \X SecondSchedules)]

\* EventSerializer.is_valid(): every schedule has a from_date, and no to_date
\* before it.
IsValidSchedule(s) == s.from_date # Null /\ (s.to_date = Null \/ s.from_date <= s.to_date)

IsValidEvent(data) == \A i \in 1..Len(data.schedule) : IsValidSchedule(data.schedule[i])

RECURSIVE GenerateAll(_, _, _)
\* The occurrences of the first n schedules, each expanded on its own, in order.
GenerateAll(event, data, n) ==
    IF n = 0 THEN << >>
    ELSE GenerateAll(event, data, n - 1)
         \o Generate(event,
                     calculate_dates_in_threshold(data.schedule[n].from_date,
                                                  data.schedule[n].to_date,
                                                  data.schedule[n].weekdays).value,
                     data.vacancies)

\* EventSerializer.create(validated_data): the Event row and its occurrences.
EventSerializerCreate(data) ==
    [events |-> Append(created.events, [cancelled |-> Null]),
     occurrences |-> created.occurrences
                     \o GenerateAll(Len(created.events) + 1, data, Len(data.schedule))]

\* create that stores the request before it looks at the serializer's verdict.
EventsView_create_unvalidated(data) ==
    [response |-> IF IsValidEvent(data) THEN Created ELSE BadRequest,
     created |-> EventSerializerCreate(data)]

\* EventsView.create
EventsView_create(data) ==
    IF ~IsValidEvent(data)
    THEN [response |-> BadRequest, created |-> created]
    ELSE [response |-> Created, created |-> EventSerializerCreate(data)]

CreateEvent ==
    \E data \in EventData :
        LET result == EventsView_create(data) IN
        /\ Len(result.created.events) <= MaxEvents
        /\ created' = result.created
        /\ UNCHANGED <<events, occurrences, reservations, now, requests,
                       schedule, dates, history, wineries>>

NextEvents == CreateEvent

SpecEvents == Init /\ [][NextEvents]_vars

\* ---------------------------------------------------- ReportsView.get (views.py)
\* A timestamp counts months: 1 is January of the first year, 13 January of the
\* second. A date of the query string is 'YYYY-MM-..' as [year, month].
MONTHS == 12

\* ExtractMonth
Month(stamp) == ((stamp - 1) % MONTHS) + 1

\* datetime.strptime(text, DATE_FORMAT)
Strptime(text) == (text.year - 1) * MONTHS + text.month

\* request.query_params.get(...) of a parameter that was not sent
NoDate == [year |-> 0, month |-> 0]

\* request.query_params.get(...) of a parameter sent without a value: ''
EmptyText == [year |-> -1, month |-> -1]

\* 'if from_date:' is false of None and of the empty string.
Falsy(text) == text \in {NoDate, EmptyText}

\* datetime.strptime raises ValueError: the text has no year or no month of the
\* calendar.
StrptimeRaises(text) == text.year < 1 \/ text.month \notin 1..MONTHS

QueryDates == {NoDate, [year |-> 1, month |-> 10], [year |-> 1, month |-> 12],
               [year |-> 2, month |-> 1]}

\* What a query string may carry: nothing, '', a date, '0001-13-..', 'x-02-..'.
QueryTexts == {NoDate, EmptyText, [year |-> 1, month |-> 10],
               [year |-> 1, month |-> 13], [year |-> 0, month |-> 2]}

\* date.today().year
today_year == 2020

\* The events of the reports: event 0 is of winery w2, the others of winery w1.
ReportEventWinery(event) == IF event = 0 THEN "w2" ELSE "w1"

\* Event.name: event 0 and the event after MaxRankEvents carry the name of event 1.
ReportEventName(event) == IF event = 0 \/ event > MaxRankEvents THEN 1 ELSE event

\* The occurrences reserved: their event, start and end.
ReportOccurrences ==
    {[event |-> 1, start |-> 10, end |-> 10],
     [event |-> 1, start |-> 12, end |-> 13],
     [event |-> 0, start |-> 10, end |-> 10]}

\* user.birth_date.year of the tourists: no birth date, and the ages 17, 18, 34,
\* 35, 49 and 50 this year.
BirthYears == {Null} \cup {today_year - age : age \in {17, 18, 34, 35, 49, 50}}

\* user.language.name of the tourist born that year
BornLanguage(birth_year) ==
    IF birth_year = Null THEN "English"
    ELSE IF birth_year < today_year - 35 THEN "Spanish" ELSE "French"

\* user.country.name of the tourist born that year
BornCountry(birth_year) == IF birth_year = Null THEN "Chile" ELSE "Argentina"

\* A Reservation row joined with its occurrence, its event and its user.
ReservationRow(occurrence, birth_year, paid_amount) ==
    [event |-> occurrence.event, name |-> ReportEventName(occurrence.event),
     winery |-> ReportEventWinery(occurrence.event),
     start |-> occurrence.start, end |-> occurrence.end,
     birth_year |-> birth_year, paid_amount |-> paid_amount,
     language |-> BornLanguage(birth_year), country |-> BornCountry(birth_year)]

\* user.birth_date.year of the users of the ledger: t1 is 70 this year, the
\* others 20.
UserBirthYear(user) == IF user = "t1" THEN today_year - 70 ELSE today_year - 20

\* The events of the ledger among the events of the reports: e1 is event 1 (of
\* winery w1), e2 is event 0 (of winery w2).
EventId(event) == IF event = "e1" THEN 1 ELSE 0

\* A Reservation row of the ledger joined with its occurrence, its event and
\* its user, the three cancelled fields included.
LedgerRow(reservation) ==
    LET occurrence == reservation.event_occurrence
        event == OccurrenceEvent(occurrence)
    IN [event |-> EventId(event), name |-> ReportEventName(EventId(event)),
        winery |-> EventWinery(event),
        start |-> OccurrenceStart(occurrence), end |-> OccurrenceStart(occurrence),
        birth_year |-> UserBirthYear(reservation.user), paid_amount |-> 1000,
        language |-> BornLanguage(UserBirthYear(reservation.user)),
        country |-> BornCountry(UserBirthYear(reservation.user)),
        cancelled |-> reservation.cancelled,
        occurrence_cancelled |-> occurrences[occurrence].cancelled,
        event_cancelled |-> events[event].cancelled]

\* Reservation.objects, joined: the rows of the history and of the ledger.
Reservation_objects ==
    history.reservations \o [i \in 1..Len(reservations) |-> LedgerRow(reservations[i])]

\* A Rate row joined with its event.
RateRow(event, rate, stamp) ==
    [event |-> event, name |-> ReportEventName(event), winery |-> ReportEventWinery(event),
     rate |-> rate, created |-> stamp]

ReservationRows ==
    {ReservationRow(o, b, 1000) : o \in ReportOccurrences, b \in BirthYears}

RateRows == {RateRow(e, 4, c) : e \in {0, 1}, c \in {9, 12}}

\* Every event of every winery.
all_events(user, row) == TRUE

\* user_events = request.user.winery.events.all(), as the test 'event in user_events'
user_events(user, row) == row.winery = UserWinery(user)

\* The filters, and one more: nothing cancelled is kept.
reservations_filter_active(objects, user, from_date, to_date) ==
    LET Kept(row) ==
            /\ user_events(user, row)
            /\ ~Falsy(from_date) => row.start >= Strptime(from_date)
            /\ ~Falsy(to_date) => row.end <= Strptime(to_date)
            /\ row.cancelled = Null
            /\ row.occurrence_cancelled = Null
            /\ row.event_cancelled = Null
    IN SelectSeq(objects, Kept)

\* filter(event_occurrence__event__in=user_events)
\* if from_date: ... filter(event_occurrence__start__gte=from_date)
\* if to_date:   ... filter(event_occurrence__end__lte=to_date)
reservations_filter(objects, user, from_date, to_date) ==
    LET Kept(row) ==
            /\ user_events(user, row)
            /\ ~Falsy(from_date) => row.start >= Strptime(from_date)
            /\ ~Falsy(to_date) => row.end <= Strptime(to_date)
    IN SelectSeq(objects, Kept)

\* user_events_reservations, as the views read it
user_events_reservations(user, from_date, to_date) ==
    reservations_filter(Reservation_objects, user, from_date, to_date)

\* if from_date: ... filter(created__gte=from_date)
\* if to_date:   ... filter(created__lte=to_date)
user_events_ratings(user, from_date, to_date) ==
    LET Kept(row) ==
            /\ user_events(user, row)
            /\ ~Falsy(from_date) => row.created >= Strptime(from_date)
            /\ ~Falsy(to_date) => row.created <= Strptime(to_date)
    IN SelectSeq(history.ratings, Kept)

\* The month of the occurrence's end.
reservation_month_of_end(row) == Month(row.end)

\* month=ExtractMonth("event_occurrence__start")
reservation_month(row) == Month(row.start)

\* .values("month").annotate(count=Count("id")): one record per month that has rows.
reservations_by_month_query(rows) ==
    {[month |-> m, count |-> LET InMonth(row) == reservation_month(row) = m
                            IN Len(SelectSeq(rows, InMonth))] :
         m \in {reservation_month(rows[i]) : i \in 1..Len(rows)}}

\* zero_count_months, each record updated with the query's record of its month.
reservations_by_month(rows) ==
    LET reservations_query == reservations_by_month_query(rows)
    IN [i \in 1..MONTHS |->
           IF \E elem \in reservations_query : elem.month = i
           THEN CHOOSE elem \in reservations_query : elem.month = i
           ELSE [month |-> i, count |-> 0]]

age_18_birth_year == today_year - 18

age_35_birth_year == today_year - 35

age_50_birth_year == today_year - 50

\* What an SQL aggregate yields: NULL, or a number.
SqlNull == << >>

SqlNumber(n) == <<n>>

RECURSIVE Total(_, _)
\* The first n values of a column added up.
Total(column, n) ==
    IF n = 0 THEN 0 ELSE Total(column, n - 1) + column[n]

\* Sum(column): NULL over no rows.
Sum(column) ==
    IF Len(column) = 0 THEN SqlNull ELSE SqlNumber(Total(column, Len(column)))

\* Case(When(user__birth_date__year__range=(age_35_birth_year, age_18_birth_year),
\* then=1), default=0): BETWEEN takes both ends, and is not true of NULL.
young(row) ==
    IF /\ row.birth_year # Null
       /\ age_35_birth_year <= row.birth_year
       /\ row.birth_year <= age_18_birth_year
    THEN 1 ELSE 0

\* Case(When(user__birth_date__year__range=(age_50_birth_year, age_35_birth_year - 1), ...
midage(row) ==
    IF /\ row.birth_year # Null
       /\ age_50_birth_year <= row.birth_year
       /\ row.birth_year <= age_35_birth_year - 1
    THEN 1 ELSE 0

\* Case(When(user__birth_date__year__lt=age_50_birth_year, then=1), default=0)
old(row) ==
    IF row.birth_year # Null /\ row.birth_year < age_50_birth_year THEN 1 ELSE 0

\* aggregate(young_sum, midage_sum, old_sum), as the list of {group, count}.
attendees_age_groups(rows) ==
    << [group |-> "young", count |-> Sum([i \in 1..Len(rows) |-> young(rows[i])])],
       [group |-> "midage", count |-> Sum([i \in 1..Len(rows) |-> midage(rows[i])])],
       [group |-> "old", count |-> Sum([i \in 1..Len(rows) |-> old(rows[i])])] >>

\* .values("user__language__name").annotate(count=Count("id")): one record per
\* language that has rows; the query does not order them.
attendees_languages(rows) ==
    {[language |-> l, count |-> LET Speaks(row) == row.language = l
                                IN Len(SelectSeq(rows, Speaks))] :
         l \in {rows[i].language : i \in 1..Len(rows)}}

\* .values("user__country__name").annotate(count=Count("id"))
attendees_countries(rows) ==
    {[country |-> c, count |-> LET From(row) == row.country = c
                               IN Len(SelectSeq(rows, From))] :
         c \in {rows[i].country : i \in 1..Len(rows)}}

\* [:10]
LIMIT == 10

Limit(records) == SubSeq(records, 1, IF Len(records) < LIMIT THEN Len(records) ELSE LIMIT)

\* The order the database gives records whose sort keys are equal: it is not
\* fixed by the query; by name upwards or by name downwards.
DbOrders == {"up", "down"}

TieBefore(a, b, db) == IF db = "up" THEN a.name < b.name ELSE a.name > b.name

\* order_by: the groups as a list, each after the groups that go before it
\* (before[g] is their number).
OrderBy(groups, before) ==
    [i \in 1..Cardinality(groups) |-> CHOOSE g \in groups : before[g] = i - 1]

\* .values(name): the names that have rows.
Names(rows) == {rows[i].name : i \in 1..Len(rows)}

\* The rows of a name that belong to the name's first event only.
NamedOfOneEvent(rows, name) ==
    LET IsNamed(row) ==
            /\ row.name = name
            /\ \A i \in 1..Len(rows) : rows[i].name = name => row.event <= rows[i].event
    IN SelectSeq(rows, IsNamed)

Named(rows, name) == LET IsNamed(row) == row.name = name IN SelectSeq(rows, IsNamed)

\* Avg("rate") of a group, as the fraction sum / count.
Avg(rows) == [sum |-> Total([i \in 1..Len(rows) |-> rows[i].rate], Len(rows)),
              count |-> Len(rows)]

\* a < b for fractions of positive count
Below(a, b) == a.sum * b.count < b.sum * a.count

\* The records by average upwards.
events_by_rating_ascending(rows, db) ==
    LET groups == {[name |-> n, avg_rating |-> Avg(Named(rows, n))] : n \in Names(rows)}
        Before(a, b) ==
            \/ Below(a.avg_rating, b.avg_rating)
            \/ a.avg_rating.sum * b.avg_rating.count = b.avg_rating.sum * a.avg_rating.count
               /\ TieBefore(a, b, db)
    IN Limit(OrderBy(groups, [g \in groups |-> Cardinality({h \in groups : Before(h, g)})]))

\* .values("event__name").annotate(avg_rating=Coalesce(Avg("rate"), 0))
\* .order_by("-avg_rating")[:10]
events_by_rating(rows, db) ==
    LET groups == {[name |-> n, avg_rating |-> Avg(Named(rows, n))] : n \in Names(rows)}
        Before(a, b) ==
            \/ Below(b.avg_rating, a.avg_rating)
            \/ a.avg_rating.sum * b.avg_rating.count = b.avg_rating.sum * a.avg_rating.count
               /\ TieBefore(a, b, db)
    IN Limit(OrderBy(groups, [g \in groups |-> Cardinality({h \in groups : Before(h, g)})]))

\* .values("event_occurrence__event__name").annotate(count=Count("id"))
\* .order_by("count")[:10]
reservations_by_event(rows, db) ==
    LET groups == {[name |-> n, count |-> Len(Named(rows, n))] : n \in Names(rows)}
        Before(a, b) ==
            \/ a.count < b.count
            \/ a.count = b.count /\ TieBefore(a, b, db)
    IN Limit(OrderBy(groups, [g \in groups |-> Cardinality({h \in groups : Before(h, g)})]))

\* The records by earnings upwards.
reservations_by_earnings_ascending(rows, db) ==
    LET groups == {[name |-> n,
                    earnings |-> LET group == Named(rows, n)
                                 IN Total([i \in 1..Len(group) |-> group[i].paid_amount],
                                          Len(group))] : n \in Names(rows)}
        Before(a, b) ==
            \/ a.earnings < b.earnings
            \/ a.earnings = b.earnings /\ TieBefore(a, b, db)
    IN Limit(OrderBy(groups, [g \in groups |-> Cardinality({h \in groups : Before(h, g)})]))

\* .values("event_occurrence__event__name").annotate(earnings=Sum("paid_amount"))
\* .order_by("-earnings")[:10]
reservations_by_earnings(rows, db) ==
    LET groups == {[name |-> n,
                    earnings |-> LET group == Named(rows, n)
                                 IN Total([i \in 1..Len(group) |-> group[i].paid_amount],
                                          Len(group))] : n \in Names(rows)}
        Before(a, b) ==
            \/ a.earnings > b.earnings
            \/ a.earnings = b.earnings /\ TieBefore(a, b, db)
    IN Limit(OrderBy(groups, [g \in groups |-> Cardinality({h \in groups : Before(h, g)})]))

\* ReportsView.get: 400 when a date that was given does not parse, else the
\* report of the filtered reservations and ratings.
ReportsView_get(user, from_date, to_date, db) ==
    IF \/ ~Falsy(from_date) /\ StrptimeRaises(from_date)
       \/ ~Falsy(to_date) /\ StrptimeRaises(to_date)
    THEN [status |-> 400, errors |-> "Dates format must be 'YYYY-MM-DD'"]
    ELSE LET reservations_filtered == user_events_reservations(user, from_date, to_date)
             ratings_filtered == user_events_ratings(user, from_date, to_date)
         IN [status |-> 200,
             reservations_by_event |-> reservations_by_event(reservations_filtered, db),
             reservations_by_month |-> reservations_by_month(reservations_filtered),
             attendees_languages |-> attendees_languages(reservations_filtered),
             attendees_countries |-> attendees_countries(reservations_filtered),
             attendees_age_groups |-> attendees_age_groups(reservations_filtered),
             events_by_rating |-> events_by_rating(ratings_filtered, db),
             reservations_by_earnings |->
                 reservations_by_earnings(reservations_filtered, db)]

\* A reservation is stored.
Reserved ==
    \E row \in ReservationRows :
        /\ Len(history.reservations) < MaxReservations
        /\ history' = [history EXCEPT !.reservations = Append(@, row)]
        /\ UNCHANGED <<events, occurrences, reservations, now, requests,
                       schedule, dates, created, wineries>>

\* A rating is stored.
Rated ==
    \E row \in RateRows :
        /\ Len(history.ratings) < MaxRatings
        /\ history' = [history EXCEPT !.ratings = Append(@, row)]
        /\ UNCHANGED <<events, occurrences, reservations, now, requests,
                       schedule, dates, created, wineries>>

NextReport ==
    \/ Reserved
    \/ Rated

SpecReport == Init /\ [][NextReport]_vars

\* ------------------------------------------- the report of many rated events
\* Event 0 of winery w2 and the events 1..MaxRankEvents of winery w1.
RankEvents == 0..MaxRankEvents

\* The rate an event is given, 1..5; the second rating of event 1 is a 5.
RankRate(event, nth) == IF nth = 2 THEN 5 ELSE 1 + (event % 5)

\* Ratings of even events are created in September, the others in December.
RankCreated(event) == IF event % 2 = 0 THEN 9 ELSE 12

\* The ratings an event may get: event 1 two, every other event one.
RankRatings(event) == IF event = 1 THEN 2 ELSE 1

RankDates == {NoDate, [year |-> 1, month |-> 10]}

\* A rating is stored; the events are rated in the order of their ids.
RateRanked ==
    \E event \in RankEvents :
        LET nth == Cardinality({i \in 1..Len(history.ratings) :
                                    history.ratings[i].event = event}) + 1 IN
        /\ \A i \in 1..Len(history.ratings) : history.ratings[i].event <= event
        /\ nth <= RankRatings(event)
        /\ history' = [history EXCEPT !.ratings =
               Append(@, RateRow(event, RankRate(event, nth), RankCreated(event)))]
        /\ UNCHANGED <<events, occurrences, reservations, now, requests,
                       schedule, dates, created, wineries>>

\* The one reservation of the history is stored.
ReserveRanked ==
    \E occurrence \in ReportOccurrences :
        /\ history.reservations = << >>
        /\ history' = [history EXCEPT !.reservations =
               <<ReservationRow(occurrence, Null, 1000)>>]
        /\ UNCHANGED <<events, occurrences, reservations, now, requests,
                       schedule, dates, created, wineries>>

NextRanking ==
    \/ RateRanked
    \/ ReserveRanked

SpecRanking == Init /\ [][NextRanking]_vars

\* ----------------------------------------- the report of many reserved events
\* Event 0 of winery w2, the events 1..MaxRankEvents of winery w1, and one more
\* event of winery w1 that carries the name of event 1.
BookEvents == 0..(MaxRankEvents + 1)

\* The reservations an event may get: event 1 two, every other event one.
BookReservations(event) == IF event = 1 THEN 2 ELSE 1

\* paid_amount of a reservation: 1000, 2000 or 3000 by the event.
BookPaid(event) == 1000 * (1 + (event % 3))

\* The occurrence reserved: even events in September, the others in December.
BookOccurrence(event) ==
    [event |-> event, start |-> RankCreated(event), end |-> RankCreated(event)]

\* A reservation is stored; the events are reserved in the order of their ids.
ReserveBooked ==
    \E event \in BookEvents :
        LET nth == Cardinality({i \in 1..Len(history.reservations) :
                                    history.reservations[i].event = event}) + 1 IN
        /\ \A i \in 1..Len(history.reservations) : history.reservations[i].event <= event
        /\ nth <= BookReservations(event)
        /\ history' = [history EXCEPT !.reservations =
               Append(@, ReservationRow(BookOccurrence(event), Null, BookPaid(event)))]
        /\ UNCHANGED <<events, occurrences, reservations, now, requests,
                       schedule, dates, created, wineries>>

\* The two events of winery w1 that share a name are rated, once each.
RateBooked ==
    \E event \in {1, MaxRankEvents + 1} :
        /\ \A i \in 1..Len(history.ratings) : history.ratings[i].event < event
        /\ history' = [history EXCEPT !.ratings =
               Append(@, RateRow(event, RankRate(event, 1), RankCreated(event)))]
        /\ UNCHANGED <<events, occurrences, reservations, now, requests,
                       schedule, dates, created, wineries>>

NextBooked ==
    \/ ReserveBooked
    \/ RateBooked

SpecBooked == Init /\ [][NextBooked]_vars

\* --------------------------------------- the report of a ledger with cancellations
\* A tourist reserves one seat.
ReserveOne ==
    \E user \in Tourists, occurrence \in Occurrences :
        LET result == ReservationView_create(
                          user, [event_occurrence |-> occurrence, attendee_number |-> 1]) IN
        /\ Len(result.reservations) <= MaxReservations
        /\ Commit(result, FALSE)

\* A tourist cancels a reservation of theirs.
TouristCancels ==
    \E pk \in 1..Len(reservations) :
        LET result == ReservationView_cancel_reservation(reservations[pk].user, pk, Absent) IN
        /\ Wrote(result)
        /\ now < MaxTime
        /\ Commit(result, TRUE)

\* A winery's user cancels an occurrence.
WineryCancelsOccurrence ==
    \E user \in WineryUsers, pk \in Occurrences :
        LET result == EventOccurrencesView_cancel_occurrence(user, pk, Absent) IN
        /\ Wrote(result)
        /\ now < MaxTime
        /\ Commit(result, TRUE)

\* A winery's user cancels an event.
WineryCancelsEvent ==
    \E user \in WineryUsers, pk \in Events :
        LET result == EventsView_cancel_event(user, pk, Absent) IN
        /\ Wrote(result)
        /\ now < MaxTime
        /\ Commit(result, TRUE)

NextCancelled ==
    \/ ReserveOne
    \/ TouristCancels
    \/ WineryCancelsOccurrence
    \/ WineryCancelsEvent

SpecCancelled == Init /\ [][NextCancelled]_vars

\* ------------------------------------ WineryView, WineryApprovalView (views.py)
\* AdminOnly
IsAdmin(user) == user = "admin"

\* Winery.objects.create(name=...): available_since is left null.
NewWinery(name) == [name |-> name, available_since |-> Null]

\* WineryView.queryset: Winery.objects.filter(available_since__isnull=False)
WineryView_queryset ==
    {pk \in 1..Len(wineries) : wineries[pk].available_since # Null}

\* WineryApprovalView.queryset: Winery.objects.filter(available_since__isnull=True)
WineryApprovalView_queryset ==
    {pk \in 1..Len(wineries) : wineries[pk].available_since = Null}

\* approve that withdraws the approval of a winery already approved.
WineryApprovalView_approve_toggle(user, pk) ==
    IF ~IsAdmin(user)
    THEN [response |-> PermissionDenied, wineries |-> wineries]
    ELSE IF pk \notin 1..Len(wineries)
    THEN [response |-> Response(404, "Not found."), wineries |-> wineries]
    ELSE [response |-> Response(200, "Winery successfully approved"),
          wineries |-> [wineries EXCEPT ![pk].available_since =
                            IF @ = Null THEN now ELSE Null]]

\* WineryApprovalView.approve
WineryApprovalView_approve(user, pk) ==
    IF ~IsAdmin(user)
    THEN [response |-> PermissionDenied, wineries |-> wineries]
    ELSE IF pk \notin 1..Len(wineries)
    THEN [response |-> Response(404, "Not found."), wineries |-> wineries]
    ELSE [response |-> Response(200, "Winery successfully approved"),
          wineries |-> [wineries EXCEPT ![pk].available_since = now]]

\* WineryView's PATCH: the winery is looked up in the view's queryset, and the
\* serializer writes the fields it has, here the name.
WineryView_partial_update(owner, pk, name) ==
    IF pk \notin WineryView_queryset
    THEN [response |-> Response(404, "Not found."), wineries |-> wineries]
    ELSE IF ~owner
    THEN [response |-> PermissionDenied, wineries |-> wineries]
    ELSE [response |-> Response(200, "winery"),
          wineries |-> [wineries EXCEPT ![pk].name = name]]

\* A winery is registered.
CreateWinery ==
    \E name \in {"a", "b"} :
        /\ Len(wineries) < MaxWineries
        /\ wineries' = Append(wineries, NewWinery(name))
        /\ UNCHANGED <<events, occurrences, reservations, now, requests,
                       schedule, dates, created, history>>

\* POST approve-wineries/<pk>/approve; the handler reads the clock.
Approve ==
    \E user \in Users \cup {"admin"}, pk \in 1..MaxWineries :
        LET result == WineryApprovalView_approve(user, pk) IN
        /\ result.wineries # wineries => now < MaxTime
        /\ wineries' = result.wineries
        /\ now' = IF result.wineries # wineries THEN now + 1 ELSE now
        /\ UNCHANGED <<events, occurrences, reservations, requests,
                       schedule, dates, created, history>>

\* PATCH wineries/<pk>
PatchWinery ==
    \E owner \in BOOLEAN, pk \in 1..MaxWineries, name \in {"a", "b"} :
        /\ wineries' = WineryView_partial_update(owner, pk, name).wineries
        /\ UNCHANGED <<events, occurrences, reservations, now, requests,
                       schedule, dates, created, history>>

NextWinery ==
    \/ CreateWinery
    \/ Approve
    \/ PatchWinery

SpecWinery == Init /\ [][NextWinery]_vars

\* ===================================================================== claims
RECURSIVE SumAttendees(_, _)
\* attendee_number summed over the first n reservation rows of an occurrence
SumAttendees(occurrence, n) ==
    IF n = 0 THEN 0
    ELSE SumAttendees(occurrence, n - 1)
         + (IF reservations[n].event_occurrence = occurrence
            THEN reservations[n].attendee_number ELSE 0)

Booked(occurrence) == SumAttendees(occurrence, Len(reservations))

\* C1: when reserve requests run one at a time and none fails, every occurrence
\* has vacancies = initial vacancies - the attendee numbers of all reservations
\* created against it (so a reserve lowers its own occurrence by exactly its
\* attendee number and no other occurrence).
C1_LedgerBalance ==
    \A o \in Occurrences : occurrences[o].vacancies = InitVacancies - Booked(o)

C1_Witness ==
    /\ Len(reservations) >= 2
    /\ \E o \in Occurrences : Booked(o) >= 2 /\ occurrences[o].vacancies = InitVacancies - Booked(o)
    /\ \E o \in Occurrences : Booked(o) = 0 /\ occurrences[o].vacancies = InitVacancies

\* C2: two requests that both read an occurrence's vacancies before either saved,
\* and both completed, leave the occurrence lowered by less than the attendee
\* numbers of the reservations stored against it: one decrement is lost.
C2_LostUpdate ==
    \A p \in Procs, q \in Procs :
        ( /\ p # q
          /\ requests[p].pc = "done"
          /\ requests[q].pc = "done"
          /\ requests[p].event_occurrence = requests[q].event_occurrence
          /\ requests[p].local.vacancies = requests[q].local.vacancies )
        => occurrences[requests[p].event_occurrence].vacancies
               > InitVacancies - Booked(requests[p].event_occurrence)

\* Both reservations are stored, both requests returned 201, and the occurrence
\* was lowered by the attendee number of one of them only.
C2_Witness ==
    \E p \in Procs, q \in Procs :
        /\ p # q
        /\ requests[p].pc = "done"
        /\ requests[q].pc = "done"
        /\ requests[p].event_occurrence = requests[q].event_occurrence
        /\ Len(reservations) = 2
        /\ \A i \in 1..2 : reservations[i].event_occurrence = requests[p].event_occurrence
        /\ Booked(requests[p].event_occurrence)
               = requests[p].attendee_number + requests[q].attendee_number
        /\ occurrences[requests[p].event_occurrence].vacancies
               = InitVacancies - requests[p].attendee_number

\* C3: reserve is atomic: no state, a request dying between storing the
\* reservation and saving the occurrence included, holds a reservation row whose
\* attendee number is not subtracted from its occurrence's vacancies.
C3_ReserveAtomic ==
    \A o \in Occurrences : InitVacancies - occurrences[o].vacancies = Booked(o)

\* C4: every valid reserve request is accepted whatever the vacancies left: it is
\* answered 201, the reservation is stored and vacancies drop by the attendee
\* number, below zero by exactly the excess.
C4_NoOversellGuard ==
    \A user \in Users, data \in ReserveData :
        IsValid(data) =>
            LET result == ReservationView_create(user, data) IN
            /\ result.response = Created
            /\ Len(result.reservations) = Len(reservations) + 1
            /\ result.occurrences[data.event_occurrence].vacancies
                   = occurrences[data.event_occurrence].vacancies - data.attendee_number

\* A request for more than was left has been accepted.
C4_Witness ==
    \E o \in Occurrences :
        /\ occurrences[o].vacancies < 0
        /\ Booked(o) = InitVacancies - occurrences[o].vacancies
        /\ reservations[Len(reservations)].event_occurrence = o
        /\ reservations[Len(reservations)].attendee_number > -occurrences[o].vacancies

\* C5: no reservation is created against an occurrence that is cancelled, or
\* whose event is cancelled, when the reserve request is made.
C5_CancelledNotBookable ==
    [][ \A i \in 1..Len(reservations') :
            i > Len(reservations) =>
                /\ occurrences[reservations'[i].event_occurrence].cancelled = Null
                /\ events[OccurrenceEvent(reservations'[i].event_occurrence)].cancelled = Null
      ]_vars

\* The cancellation timestamp and reason of a row.
Cancellation(row) == <<row.cancelled, row.cancellation_reason>>

\* The actor a cancel endpoint is meant for.
OwnsEvent(user, event) == UserWinery(user) = EventWinery(event)

OwnsReservation(user, reservation) == user = reservation.user

OwnsReservationEvent(user, reservation) ==
    OwnsEvent(user, OccurrenceEvent(reservation.event_occurrence))

\* C6 as claimed: when the authorized actor cancels an active Event,
\* EventOccurrence or Reservation, the same request made again is answered with
\* the same status and the same confirmation.
C6_SameAnswerTwice ==
    [][ /\ events' # events =>
               \A u \in Users, pk \in Events, d \in RequestReasons :
                   LET first == EventsView_cancel_event(u, pk, d) IN
                   (OwnsEvent(u, pk) /\ Wrote(first) /\ events' = first.events)
                       => (EventsView_cancel_event(u, pk, d).response)' = first.response
        /\ now' # now =>
               \A u \in Users, pk \in Occurrences, d \in RequestReasons :
                   LET first == EventOccurrencesView_cancel_occurrence(u, pk, d) IN
                   (OwnsEvent(u, OccurrenceEvent(pk)) /\ Wrote(first)
                        /\ occurrences' = first.occurrences)
                       => (EventOccurrencesView_cancel_occurrence(u, pk, d).response)'
                              = first.response
        /\ now' # now =>
               \A u \in Users, pk \in 1..Len(reservations), d \in RequestReasons :
                   LET first == ReservationView_cancel_reservation(u, pk, d) IN
                   (OwnsReservation(u, reservations[pk])
                        /\ reservations[pk].cancelled = Null
                        /\ reservations' = first.reservations)
                       => (ReservationView_cancel_reservation(u, pk, d).response)'
                              = first.response
      ]_vars

\* C6 amended: the repeated cancel is answered with the same status, 200, as the
\* first; its confirmation is the first one again for a Reservation (by either
\* endpoint), and the 'already cancelled' notice for an Event or EventOccurrence.
C6_SameStatusTwice ==
    [][ /\ events' # events =>
               \A u \in Users, pk \in Events, d \in RequestReasons :
                   LET first == EventsView_cancel_event(u, pk, d) IN
                   (OwnsEvent(u, pk) /\ Wrote(first) /\ events' = first.events)
                       => /\ first.response.status = 200
                          /\ (EventsView_cancel_event(u, pk, d).response)'
                                 = Response(200, "Event already cancelled")
        /\ now' # now =>
               \A u \in Users, pk \in Occurrences, d \in RequestReasons :
                   LET first == EventOccurrencesView_cancel_occurrence(u, pk, d) IN
                   (OwnsEvent(u, OccurrenceEvent(pk)) /\ Wrote(first)
                        /\ occurrences' = first.occurrences)
                       => /\ first.response.status = 200
                          /\ (EventOccurrencesView_cancel_occurrence(u, pk, d).response)'
                                 = Response(200, "Occurrence already cancelled")
        /\ now' # now =>
               \A u \in Users, pk \in 1..Len(reservations), d \in RequestReasons :
                   LET first == ReservationView_cancel_reservation(u, pk, d) IN
                   (OwnsReservation(u, reservations[pk])
                        /\ reservations[pk].cancelled = Null
                        /\ reservations' = first.reservations)
                       => /\ first.response.status = 200
                          /\ (ReservationView_cancel_reservation(u, pk, d).response)'
                                 = first.response
        /\ now' # now =>
               \A u \in Users, pk \in 1..Len(reservations), d \in RequestReasons :
                   LET first == EventReservationsView_cancel_reservation(u, pk, d) IN
                   (OwnsReservationEvent(u, reservations[pk])
                        /\ reservations[pk].cancelled = Null
                        /\ reservations' = first.reservations)
                       => /\ first.response.status = 200
                          /\ (EventReservationsView_cancel_reservation(u, pk, d).response)'
                                 = first.response
      ]_vars

\* An event, an occurrence or a reservation has been cancelled, so that the
\* repeated request meets a cancelled entity.
C6_Witness ==
    /\ \E o \in Occurrences : occurrences[o].cancelled # Null
    /\ \/ \E e \in Events : events[e].cancelled # Null
       \/ \E i \in 1..Len(reservations) : reservations[i].cancelled # Null

\* C7: once cancelled, an Event, EventOccurrence or Reservation keeps its
\* cancellation timestamp and reason under every later request.
C7_CancelledIsTerminal ==
    [][ /\ \A e \in Events :
               events[e].cancelled # Null => Cancellation(events'[e]) = Cancellation(events[e])
        /\ \A o \in Occurrences :
               occurrences[o].cancelled # Null
                   => Cancellation(occurrences'[o]) = Cancellation(occurrences[o])
        /\ \A i \in 1..Len(reservations) :
               reservations[i].cancelled # Null
                   => Cancellation(reservations'[i]) = Cancellation(reservations[i])
      ]_vars

\* C8: no cancelled Event, EventOccurrence or Reservation has an absent reason
\* (a request without a reason is recorded with the default reason).
C8_DefaultReason ==
    /\ \A e \in Events :
           events[e].cancelled # Null => events[e].cancellation_reason # None
    /\ \A o \in Occurrences :
           occurrences[o].cancelled # Null => occurrences[o].cancellation_reason # None
    /\ \A i \in 1..Len(reservations) :
           reservations[i].cancelled # Null => reservations[i].cancellation_reason # None

\* C9: a step that changes an event's row changes the cancellation of no
\* occurrence and no reservation; a step that changes an occurrence's
\* cancellation changes no event and no reservation; a step that changes a
\* reservation's cancellation changes no event and no occurrence.
C9_CancellationPerEntity ==
    [][ /\ events' # events
            => /\ \A o \in Occurrences :
                      Cancellation(occurrences'[o]) = Cancellation(occurrences[o])
               /\ reservations' = reservations
        /\ (\E o \in Occurrences :
                Cancellation(occurrences'[o]) # Cancellation(occurrences[o]))
            => /\ events' = events
               /\ reservations' = reservations
        /\ (\E i \in 1..Len(reservations) :
                Cancellation(reservations'[i]) # Cancellation(reservations[i]))
            => /\ events' = events
               /\ occurrences' = occurrences
      ]_vars

\* An event is cancelled while its occurrence and a reservation of it are active.
C9_Witness ==
    \E i \in 1..Len(reservations) :
        LET o == reservations[i].event_occurrence IN
        /\ events[OccurrenceEvent(o)].cancelled # Null
        /\ occurrences[o].cancelled = Null
        /\ reservations[i].cancelled = Null

\* C10: a user who is neither the reservation's tourist nor a user of the winery
\* that owns the reservation's event is answered 403 by both cancel endpoints,
\* and neither leaves any row changed.
C10_OnlyOwnersCancel ==
    \A i \in 1..Len(reservations), u \in Users, d \in RequestReasons :
        (~OwnsReservation(u, reservations[i]) /\ ~OwnsReservationEvent(u, reservations[i]))
            => /\ ReservationView_cancel_reservation(u, i, d).response.status = 403
               /\ ~Wrote(ReservationView_cancel_reservation(u, i, d))
               /\ EventReservationsView_cancel_reservation(u, i, d).response.status = 403
               /\ ~Wrote(EventReservationsView_cancel_reservation(u, i, d))

\* An active reservation, a tourist who does not own it and a user of another
\* winery, both refused by both endpoints.
C10_Witness ==
    \E i \in 1..Len(reservations), t \in Tourists, w \in WineryUsers :
        /\ reservations[i].cancelled = Null
        /\ ~OwnsReservation(t, reservations[i])
        /\ ~OwnsReservationEvent(w, reservations[i])
        /\ \A u \in {t, w} :
               /\ ReservationView_cancel_reservation(u, i, Absent).response = PermissionDenied
               /\ EventReservationsView_cancel_reservation(u, i, Absent).response
                      = PermissionDenied

\* The cancellation fields of an Event or EventOccurrence row.
Cancelled(row) == <<row.cancelled, row.cancellation_reason>>

\* A cancel request of a user of the owning winery, for an active event.
OwnerCancelsEvent(event) ==
    /\ events[event].cancelled = Null
    /\ \E user \in Users, data \in RequestReasons :
           /\ UserWinery(user) = EventWinery(event)
           /\ events' = EventsView_cancel_event(user, event, data).events

\* A cancel request of a user of the owning winery, for an active occurrence.
OwnerCancelsOccurrence(occurrence) ==
    /\ occurrences[occurrence].cancelled = Null
    /\ \E user \in Users, data \in RequestReasons :
           /\ UserWinery(user) = EventWinery(OccurrenceEvent(occurrence))
           /\ \/ occurrences' =
                    EventOccurrencesView_cancel_occurrence(user, occurrence, data).occurrences
              \/ occurrences' =
                    RestaurantOccurrencesView_cancel_occurrence(user, occurrence, data).occurrences

\* No cancel handler writes for a user without winery or of another winery.
OutsidersNeverCancel ==
    /\ \A user \in Users, pk \in Events, data \in RequestReasons :
           UserWinery(user) # EventWinery(pk)
               => ~Wrote(EventsView_cancel_event(user, pk, data))
    /\ \A user \in Users, pk \in Occurrences, data \in RequestReasons :
           UserWinery(user) # EventWinery(OccurrenceEvent(pk))
               => /\ ~Wrote(EventOccurrencesView_cancel_occurrence(user, pk, data))
                  /\ ~Wrote(RestaurantOccurrencesView_cancel_occurrence(user, pk, data))

\* C11: the cancellation timestamp and reason of an Event or EventOccurrence
\* change only in a step that is a cancel request of a user of the owning
\* winery for a row that was active, and in every state a cancel request of a
\* user without winery or of another winery (through EventsView,
\* EventOccurrencesView or RestaurantOccurrencesView) writes nothing.
C11_OnlyOwningWineryCancels ==
    /\ []OutsidersNeverCancel
    /\ [][ /\ \A e \in Events :
                 Cancelled(events'[e]) # Cancelled(events[e]) => OwnerCancelsEvent(e)
           /\ \A o \in Occurrences :
                 Cancelled(occurrences'[o]) # Cancelled(occurrences[o])
                     => OwnerCancelsOccurrence(o) ]_vars

\* An event and an occurrence were cancelled by their wineries' users, and the
\* user of the other winery and a tourist are refused on the rows still active.
C11_Witness ==
    /\ events["e1"].cancelled # Null
    /\ occurrences["o2"].cancelled # Null
    /\ events["e2"].cancelled = Null
    /\ occurrences["o1"].cancelled = Null
    /\ EventsView_cancel_event("wu1", "e2", "r1").response = AccessDenied
    /\ RestaurantOccurrencesView_cancel_occurrence("wu2", "o1", "r1").response = AccessDenied
    /\ EventOccurrencesView_cancel_occurrence("t1", "o1", Absent).response = AccessDenied
\* The dates of the schedule's range that fall on one of its weekdays.
DatesInThreshold == {d \in schedule.start..schedule.end : Weekday(d) \in schedule.weekdays.days}

Ascending(seq) == \A i \in 1..Len(seq) - 1 : seq[i] < seq[i + 1]

Elements(seq) == {seq[i] : i \in 1..Len(seq)}

\* C12: for start <= end and a set of weekdays, calculate_dates_in_threshold
\* returns exactly the dates d with start <= d <= end (end included) whose
\* weekday (0 = Monday .. 6 = Sunday) is in the set, each once, in strictly
\* ascending order.
C12_DatesInThreshold ==
    ( /\ dates.pc # "idle"
      /\ schedule.end # Null
      /\ schedule.start <= schedule.end
      /\ schedule.weekdays.given )
    => /\ ~dates.raised
       /\ Elements(dates.value) = DatesInThreshold
       /\ Ascending(dates.value)

\* test_dates_between_threshold: Sunday 18 to Saturday 31 August 2019 with
\* Monday, Wednesday, Friday gives the six dates 19, 21, 23, 26, 28, 30.
C12_Witness ==
    /\ schedule = [start |-> 7, end |-> 20, weekdays |-> [given |-> TRUE, days |-> {0, 2, 4}]]
    /\ Weekday(schedule.start) = 6
    /\ dates = Returned(<<8, 10, 12, 15, 17, 19>>)

\* C13: without to_date the expansion is [start] whatever the weekdays (None,
\* empty, or a set without start's weekday), and the schedule gets exactly
\* one occurrence, on from_date.
C13_SingleDate ==
    (dates.pc # "idle" /\ schedule.end = Null)
    => /\ dates.raised = FALSE
       /\ dates.value = <<schedule.start>>
       /\ dates.pc = "stored"
            => /\ Len(created.occurrences) = 1
               /\ created.occurrences[1].start = schedule.start

\* A schedule without to_date and without weekdays has its one occurrence.
C13_Witness ==
    /\ schedule.end = Null
    /\ schedule.weekdays = NoWeekdays
    /\ dates.pc = "stored"
    /\ Len(created.occurrences) = 1
    /\ created.occurrences[1].start = schedule.start

\* C14: called with start later than end, the expansion raises a validation
\* error; it returns no sequence, empty or otherwise.
C14_FailsFast ==
    ( /\ dates.pc # "idle"
      /\ schedule.end # Null
      /\ schedule.start > schedule.end )
    => dates.raised
ReservationsInReport(user, from_date, to_date) ==
    {i \in 1..Len(history.reservations) :
        /\ history.reservations[i].winery = UserWinery(user)
        /\ from_date # NoDate => history.reservations[i].start >= Strptime(from_date)
        /\ to_date # NoDate => history.reservations[i].end <= Strptime(to_date)}

\* The ratings (by position) that a report of the user over the window must count.
RatingsInReport(user, from_date, to_date) ==
    {i \in 1..Len(history.ratings) :
        /\ history.ratings[i].winery = UserWinery(user)
        /\ from_date # NoDate => history.ratings[i].created >= Strptime(from_date)
        /\ to_date # NoDate => history.ratings[i].created <= Strptime(to_date)}

\* C16: for every history and window, reservations_by_month is 12 records, for
\* the months 1..12 in ascending order; the count of month m is the number of
\* reservations of the winery in the window whose occurrence starts in month
\* m, 0 when there is none.
C16_TwelveMonths ==
    \A user \in WineryUsers, from_date \in QueryDates, to_date \in QueryDates :
        LET report == reservations_by_month(user_events_reservations(user, from_date, to_date))
            counted == ReservationsInReport(user, from_date, to_date)
        IN /\ Len(report) = 12
           /\ \A m \in 1..12 :
                 /\ report[m].month = m
                 /\ report[m].count =
                        Cardinality({i \in counted : Month(history.reservations[i].start) = m})

\* Two reservations of winery w1, one starting in October and one starting in
\* December and ending in January: the unfiltered report counts 1 in months 10
\* and 12 and 0 elsewhere.
C16_Witness ==
    /\ Len(history.reservations) = 2
    /\ history.reservations[1].winery = "w1" /\ history.reservations[1].start = 10
    /\ history.reservations[2].winery = "w1" /\ history.reservations[2].start = 12
    /\ history.reservations[2].end = 13
    /\ LET report == ReportsView_get("wu1", NoDate, NoDate, "up").reservations_by_month
       IN /\ report[10].count = 1
          /\ report[12].count = 1
          /\ \A m \in 1..12 \ {10, 12} : report[m].count = 0

\* C17: the reservations a report reads are exactly those of events of the
\* user's winery whose occurrence starts at or after from_date (when given) and
\* ends at or before to_date (when given); the ratings it reads are exactly
\* those of that winery's events created within the window. Rows of another
\* winery are never read.
C17_ReportScope ==
    \A user \in WineryUsers, from_date \in QueryDates, to_date \in QueryDates :
        LET reservations_counted == ReservationsInReport(user, from_date, to_date)
            ratings_counted == RatingsInReport(user, from_date, to_date)
        IN /\ user_events_reservations(user, from_date, to_date)
                = [k \in 1..Cardinality(reservations_counted) |->
                      history.reservations[
                          CHOOSE i \in reservations_counted :
                              Cardinality({j \in reservations_counted : j < i}) = k - 1]]
           /\ user_events_ratings(user, from_date, to_date)
                = [k \in 1..Cardinality(ratings_counted) |->
                      history.ratings[
                          CHOOSE i \in ratings_counted :
                              Cardinality({j \in ratings_counted : j < i}) = k - 1]]
           /\ \A i \in 1..Len(user_events_reservations(user, from_date, to_date)) :
                 user_events_reservations(user, from_date, to_date)[i].winery = UserWinery(user)
           /\ \A i \in 1..Len(user_events_ratings(user, from_date, to_date)) :
                 user_events_ratings(user, from_date, to_date)[i].winery = UserWinery(user)

\* Winery w1 has a reservation in the window [October, December] and one that
\* ends after it, winery w2 has a reservation and a rating: the report of w1's
\* user over that window reads the first reservation only and no rating.
C17_Witness ==
    /\ Len(history.reservations) = 2
    /\ Len(history.ratings) = 1
    /\ history.ratings[1].winery = "w2"
    /\ history.reservations[1].winery = "w1" /\ history.reservations[1].end = 10
    /\ history.reservations[2].winery = "w1" /\ history.reservations[2].end = 13
    /\ user_events_reservations("wu1", [year |-> 1, month |-> 10], [year |-> 1, month |-> 12])
           = <<history.reservations[1]>>
    /\ user_events_ratings("wu1", [year |-> 1, month |-> 10], [year |-> 1, month |-> 12]) = << >>
    /\ Len(user_events_ratings("wu2", NoDate, NoDate)) = 1
\* Reservations of the list whose tourist's age (this year - birth year) is in a range.
AgedBetween(rows, low, high) ==
    LET InRange(row) ==
            /\ row.birth_year # Null
            /\ low <= today_year - row.birth_year
            /\ today_year - row.birth_year <= high
    IN Len(SelectSeq(rows, InRange))

\* C18: with age = current year - birth year, attendees_age_groups counts a
\* reservation of age 18..34 as young, of age 35..49 as midage and of age 50 or
\* more as old: age 35 is midage, age 50 is old.
C18_AgeThresholds ==
    \A user \in WineryUsers, from_date \in QueryDates, to_date \in QueryDates :
        LET rows == user_events_reservations(user, from_date, to_date)
            groups == attendees_age_groups(rows)
        IN Len(rows) > 0
           => /\ groups[1] = [group |-> "young", count |-> SqlNumber(AgedBetween(rows, 18, 34))]
              /\ groups[2] = [group |-> "midage", count |-> SqlNumber(AgedBetween(rows, 35, 49))]
              /\ groups[3] = [group |-> "old", count |-> SqlNumber(AgedBetween(rows, 50, today_year))]

\* C19: for every history and window, attendees_age_groups is the three
\* records young, midage, old, each with a number, and the three numbers add
\* up to the number of reservations in the window: every reservation is in
\* exactly one group, tourists under 18 or without birth date included, and
\* the empty history gives 0, 0, 0.
C19_AgeGroupsPartition ==
    \A user \in WineryUsers, from_date \in QueryDates, to_date \in QueryDates :
        LET rows == user_events_reservations(user, from_date, to_date)
            groups == attendees_age_groups(rows)
        IN /\ <<groups[1].group, groups[2].group, groups[3].group>> = <<"young", "midage", "old">>
           /\ \A i \in 1..3 : groups[i].count # SqlNull
           /\ groups[1].count[1] + groups[2].count[1] + groups[3].count[1] = Len(rows)
RECURSIVE RateTotal(_)
\* The rates of a set of Rate rows (by position) added up.
RateTotal(S) ==
    IF S = {} THEN 0
    ELSE LET i == CHOOSE j \in S : TRUE IN history.ratings[i].rate + RateTotal(S \ {i})

\* events_by_rating is what the ratings alone make it for one request: at most
\* 10 records, one per event name that has ratings in the window, each with the
\* mean of the name's ratings in the window, no record before one of a higher
\* mean, equal means in the order of the database, none left out for one of a
\* lower mean.
RatingRanked(user, from_date, to_date, db) ==
    LET report == events_by_rating(user_events_ratings(user, from_date, to_date), db)
        counted == RatingsInReport(user, from_date, to_date)
        names == {history.ratings[i].name : i \in counted}
        Of(name) == {i \in counted : history.ratings[i].name = name}
        Mean(name) == [sum |-> RateTotal(Of(name)), count |-> Cardinality(Of(name))]
        reported == {report[i].name : i \in 1..Len(report)}
    IN /\ Len(report) <= 10
       /\ Len(report) = (IF Cardinality(names) < 10 THEN Cardinality(names) ELSE 10)
       /\ \A i \in 1..Len(report) :
             /\ report[i].name \in names
             /\ report[i].avg_rating = Mean(report[i].name)
       /\ \A i \in 1..Len(report), j \in 1..Len(report) :
             i < j => /\ report[i].name # report[j].name
                      /\ ~Below(report[i].avg_rating, report[j].avg_rating)
                      /\ Below(report[j].avg_rating, report[i].avg_rating)
                            \/ TieBefore(report[i], report[j], db)
       /\ \A name \in names \ reported, i \in 1..Len(report) :
             ~Below(report[i].avg_rating, Mean(name))

\* C20: for every history, window and order of the database among equal
\* averages, events_by_rating has at most 10 records, one per event name, each
\* with the mean of that name's ratings in the window, in descending order of
\* the mean; the ratings alone fix it, whatever reservations the history holds
\* inside or outside the window.
C20_EventsByRating ==
    \A user \in WineryUsers, from_date \in RankDates, to_date \in RankDates, db \in DbOrders :
        RatingRanked(user, from_date, to_date, db)

\* Eleven event names of winery w1 are rated, event 1 twice (mean 7/2), a
\* reservation is stored: the view without window has 10 records, led by a 5.
C20_Witness ==
    /\ Cardinality({history.ratings[i].name : i \in 1..Len(history.ratings)}) = 11
    /\ Len(Named(history.ratings, 1)) >= 2
    /\ Len(history.reservations) = 1
    /\ LET report == events_by_rating(user_events_ratings("wu1", NoDate, NoDate), "up")
       IN /\ Len(report) = 10
          /\ report[1].avg_rating = [sum |-> 5, count |-> 1]
          /\ \E i \in 1..10 : report[i] = [name |-> 1, avg_rating |-> [sum |-> 7, count |-> 2]]

\* C26: a cancel request on an event or occurrence by a user outside the owning
\* winery is answered 403 'Access Denied' in every state of the entity, the
\* cancelled state included.
C26_OutsidersAlwaysDenied ==
    /\ \A user \in Users, pk \in Events, data \in RequestReasons :
           UserWinery(user) # EventWinery(pk)
               => EventsView_cancel_event(user, pk, data).response = AccessDenied
    /\ \A user \in Users, pk \in Occurrences, data \in RequestReasons :
           UserWinery(user) # EventWinery(OccurrenceEvent(pk))
               => /\ EventOccurrencesView_cancel_occurrence(user, pk, data).response
                         = AccessDenied
                  /\ RestaurantOccurrencesView_cancel_occurrence(user, pk, data).response
                         = AccessDenied

\* C27: cancelling a reservation, by its tourist or by the owning winery, leaves
\* every occurrence's vacancies as they were: whatever was cancelled, each
\* occurrence stays at its initial vacancies less the attendee numbers of all
\* the reservations made for it, the cancelled ones included.
C27_CancelKeepsVacancies ==
    /\ \A pk \in 1..Len(reservations), user \in Users, data \in RequestReasons :
           /\ ReservationView_cancel_reservation(user, pk, data).occurrences = occurrences
           /\ EventReservationsView_cancel_reservation(user, pk, data).occurrences
                  = occurrences
    /\ \A o \in Occurrences : occurrences[o].vacancies = InitVacancies - Booked(o)

\* A reservation of MaxAttendees seats was cancelled and its occurrence is still
\* MaxAttendees below its initial vacancies.
C27_Witness ==
    \E pk \in 1..Len(reservations) :
        /\ reservations[pk].cancelled # Null
        /\ reservations[pk].attendee_number = MaxAttendees
        /\ Booked(reservations[pk].event_occurrence) = MaxAttendees
        /\ occurrences[reservations[pk].event_occurrence].vacancies
               = InitVacancies - MaxAttendees

\* An event that is cancelled or has no future occurrence that is not cancelled.
Unavailable(event) ==
    \/ events[event].cancelled # Null
    \/ \A o \in Occurrences :
           OccurrenceEvent(o) = event
               => OccurrenceStart(o) <= now \/ occurrences[o].cancelled # Null

\* C30: in every reachable state the occurrence listing of an event returns a
\* cancelled occurrence only to a user of the event's winery, and the event
\* listings (all events, a winery's events) return a cancelled event, or an
\* event without a future occurrence that is not cancelled, only to a user of
\* the event's winery.
C30_CancelledHiddenFromOthers ==
    \A user \in Users :
        /\ \A e \in Events :
               \A o \in EventOccurrencesView_get_queryset(user, e) :
                   occurrences[o].cancelled # Null => UserWinery(user) = EventWinery(e)
        /\ \A e \in EventsView_get_queryset(user) :
               Unavailable(e) => UserWinery(user) = EventWinery(e)
        /\ \A pk \in Wineries :
               \A e \in WineryView_events(user, pk) :
                   Unavailable(e) => UserWinery(user) = EventWinery(e)

\* C21: an event of the user's winery that has no rating in the window is
\* reported in events_by_rating, under its name, with avg_rating 0 (as long as
\* the view has room for it below the rated events).
C21_UnratedEventsListed ==
    \A user \in WineryUsers, from_date \in RankDates, to_date \in RankDates,
       db \in DbOrders, event \in RankEvents :
        LET ratings_filtered == user_events_ratings(user, from_date, to_date)
            view == events_by_rating(ratings_filtered, db)
        IN  ( /\ ReportEventWinery(event) = UserWinery(user)
              /\ ReportEventName(event) \notin Names(ratings_filtered)
              /\ Len(view) < LIMIT )
            => \E i \in 1..Len(view) :
                   /\ view[i].name = ReportEventName(event)
                   /\ view[i].avg_rating.sum = 0

RECURSIVE PaidTotal(_)
\* paid_amount of a set of Reservation rows (by position) added up.
PaidTotal(S) ==
    IF S = {} THEN 0
    ELSE LET i == CHOOSE j \in S : TRUE
         IN history.reservations[i].paid_amount + PaidTotal(S \ {i})

\* reservations_by_earnings for one request: at most 10 records, one per event
\* name that has reservations in the window, each with the sum of paid_amount
\* over the name's reservations in the window, no record before one of a higher
\* sum, equal sums in the order of the database, none left out for one of a
\* lower sum.
EarningsRanked(user, from_date, to_date, db) ==
    LET report == reservations_by_earnings(
                      user_events_reservations(user, from_date, to_date), db)
        counted == ReservationsInReport(user, from_date, to_date)
        names == {history.reservations[i].name : i \in counted}
        Of(name) == {i \in counted : history.reservations[i].name = name}
        reported == {report[i].name : i \in 1..Len(report)}
    IN /\ Len(report) <= 10
       /\ Len(report) = (IF Cardinality(names) < 10 THEN Cardinality(names) ELSE 10)
       /\ \A i \in 1..Len(report) :
             /\ report[i].name \in names
             /\ report[i].earnings = PaidTotal(Of(report[i].name))
       /\ \A i \in 1..Len(report), j \in 1..Len(report) :
             i < j => /\ report[i].name # report[j].name
                      /\ report[i].earnings >= report[j].earnings
                      /\ report[i].earnings > report[j].earnings
                            \/ TieBefore(report[i], report[j], db)
       /\ \A name \in names \ reported, i \in 1..Len(report) :
             report[i].earnings >= PaidTotal(Of(name))

\* C22: reservations_by_earnings has at most 10 records, one per event name,
\* each with the sum of paid_amount over the filtered reservations of that
\* name, in descending order of the sum; with more than 10 names the 10 largest
\* sums are the ones returned.
C22_EarningsTopTen ==
    \A user \in WineryUsers, from_date \in RankDates, to_date \in RankDates, db \in DbOrders :
        EarningsRanked(user, from_date, to_date, db)

\* Eleven event names of winery w1 are reserved, with sums from 1000 to 5000:
\* the view has 10 records led by the 5000 of name 1 (two events, three
\* reservations), and a name that earned 1000 is left out.
C22_Witness ==
    /\ Cardinality({history.reservations[i].name : i \in 1..Len(history.reservations)}) = 11
    /\ LET report == reservations_by_earnings(
                         user_events_reservations("wu1", NoDate, NoDate), "up")
       IN /\ Len(report) = 10
          /\ report[1] = [name |-> 1, earnings |-> 5000]
          /\ report[10].earnings = 1000
          /\ \E i \in 1..Len(history.reservations) :
                 /\ history.reservations[i].winery = "w1"
                 /\ \A j \in 1..10 : report[j].name # history.reservations[i].name

\* C23: reservations_by_event has at most 10 records, one per event name, each
\* with the number of filtered reservations of that name, in ascending order of
\* the count, and the names returned are the 10 with the most reservations: no
\* name left out has more reservations than a name returned.
C23_EventsTopTen ==
    \A user \in WineryUsers, from_date \in RankDates, to_date \in RankDates, db \in DbOrders :
        LET report == reservations_by_event(
                          user_events_reservations(user, from_date, to_date), db)
            counted == ReservationsInReport(user, from_date, to_date)
            names == {history.reservations[i].name : i \in counted}
            Of(name) == {i \in counted : history.reservations[i].name = name}
            reported == {report[i].name : i \in 1..Len(report)}
        IN /\ Len(report) <= 10
           /\ Len(report) = (IF Cardinality(names) < 10 THEN Cardinality(names) ELSE 10)
           /\ \A i \in 1..Len(report) :
                 /\ report[i].name \in names
                 /\ report[i].count = Cardinality(Of(report[i].name))
           /\ \A i \in 1..Len(report), j \in 1..Len(report) :
                 i < j => /\ report[i].name # report[j].name
                          /\ report[i].count <= report[j].count
           /\ \A name \in names \ reported, i \in 1..Len(report) :
                 report[i].count >= Cardinality(Of(name))

\* C29: the per-event views group by event name: for two distinct events of the
\* user's winery that share a name, reservations_by_event,
\* reservations_by_earnings and events_by_rating each hold at most one record
\* of that name, and its count, sum or average is taken over the filtered rows
\* of both events together.
C29_GroupedByName ==
    \A user \in WineryUsers, from_date \in RankDates, to_date \in RankDates, db \in DbOrders,
       a \in BookEvents, b \in BookEvents :
        ( /\ a < b
          /\ ReportEventWinery(a) = UserWinery(user)
          /\ ReportEventWinery(b) = UserWinery(user)
          /\ ReportEventName(a) = ReportEventName(b) )
        => LET reservations_filtered == user_events_reservations(user, from_date, to_date)
               by_event == reservations_by_event(reservations_filtered, db)
               by_earnings == reservations_by_earnings(reservations_filtered, db)
               by_rating == events_by_rating(
                                user_events_ratings(user, from_date, to_date), db)
               reserved == {i \in ReservationsInReport(user, from_date, to_date) :
                               history.reservations[i].event \in {a, b}}
               rated == {i \in RatingsInReport(user, from_date, to_date) :
                            history.ratings[i].event \in {a, b}}
               name == ReportEventName(a)
           IN /\ Cardinality({i \in 1..Len(by_event) : by_event[i].name = name}) <= 1
              /\ Cardinality({i \in 1..Len(by_earnings) : by_earnings[i].name = name}) <= 1
              /\ Cardinality({i \in 1..Len(by_rating) : by_rating[i].name = name}) <= 1
              /\ \A i \in 1..Len(by_event) :
                     by_event[i].name = name => by_event[i].count = Cardinality(reserved)
              /\ \A i \in 1..Len(by_earnings) :
                     by_earnings[i].name = name
                         => by_earnings[i].earnings = PaidTotal(reserved)
              /\ \A i \in 1..Len(by_rating) :
                     by_rating[i].name = name
                         => by_rating[i].avg_rating =
                                [sum |-> RateTotal(rated), count |-> Cardinality(rated)]

\* Event 1 and the other event of winery w1 named 1 both have reservations and
\* a rating: each view has the one record of name 1, with the count 3, the sum
\* 5000 and the mean 5/2 of both events together.
C29_Witness ==
    /\ \E i \in 1..Len(history.reservations) : history.reservations[i].event = 1
    /\ \E i \in 1..Len(history.reservations) :
           history.reservations[i].event = MaxRankEvents + 1
    /\ \E i \in 1..Len(history.ratings) : history.ratings[i].event = 1
    /\ \E i \in 1..Len(history.ratings) : history.ratings[i].event = MaxRankEvents + 1
    /\ LET reservations_filtered == user_events_reservations("wu1", NoDate, NoDate)
       IN /\ \E i \in 1..Len(reservations_by_event(reservations_filtered, "up")) :
                 reservations_by_event(reservations_filtered, "up")[i]
                     = [name |-> 1, count |-> 3]
          /\ \E i \in 1..Len(reservations_by_earnings(reservations_filtered, "up")) :
                 reservations_by_earnings(reservations_filtered, "up")[i]
                     = [name |-> 1, earnings |-> 5000]
          /\ events_by_rating(user_events_ratings("wu1", NoDate, NoDate), "up")
                 = << [name |-> 1, avg_rating |-> [sum |-> RankRate(1, 1)
                                                      + RankRate(MaxRankEvents + 1, 1),
                                                   count |-> 2]] >>

\* A parameter that was sent and is not a date of the calendar.
NotADate(text) == text # NoDate /\ (text.year < 1 \/ text.month \notin 1..12)

\* C24: a report request whose from_date or to_date is present but not a valid
\* date is answered 400 with the date-format error and nothing else; a request
\* whose dates are each a valid date or absent is answered with the report.
C24_MalformedDatesRefused ==
    \A user \in WineryUsers, from_date \in QueryTexts, to_date \in QueryTexts,
       db \in DbOrders :
        LET response == ReportsView_get(user, from_date, to_date, db)
        IN IF NotADate(from_date) \/ NotADate(to_date)
           THEN response = [status |-> 400, errors |-> "Dates format must be 'YYYY-MM-DD'"]
           ELSE response.status = 200

\* The windows of a report over the ledger, whose occurrences start at 2 and at
\* MaxTime.
LedgerDates == {NoDate, [year |-> 1, month |-> MaxTime]}

\* The Reservation rows as they were stored: nothing cancelled.
NeverCancelled ==
    LET objects == Reservation_objects
    IN [i \in 1..Len(objects) |->
           [objects[i] EXCEPT !.cancelled = Null,
                              !.occurrence_cancelled = Null,
                              !.event_cancelled = Null]]

\* C28: cancellation never changes a report: in every state, whatever
\* reservations, occurrences and events have been cancelled, every view of
\* every winery's report over every window (counts by event, month, language,
\* country and age group, and earnings) is what it is over the same rows with
\* nothing cancelled.
C28_CancelKeepsReport ==
    \A user \in WineryUsers, from_date \in LedgerDates, to_date \in LedgerDates,
       db \in DbOrders :
        LET response == ReportsView_get(user, from_date, to_date, db)
            never == NeverCancelled
            stored == reservations_filter(never, user, from_date, to_date)
        IN /\ response.reservations_by_event = reservations_by_event(stored, db)
           /\ response.reservations_by_month = reservations_by_month(stored)
           /\ response.attendees_languages = attendees_languages(stored)
           /\ response.attendees_countries = attendees_countries(stored)
           /\ response.attendees_age_groups = attendees_age_groups(stored)
           /\ response.reservations_by_earnings = reservations_by_earnings(stored, db)

\* Two reservations of occurrence o1 are stored, one of them is cancelled and
\* so is o1 or its event e1: the report of winery w1 still counts both.
C28_Witness ==
    /\ Len(reservations) = 2
    /\ \A i \in 1..2 : reservations[i].event_occurrence = "o1"
    /\ \E i \in 1..2 : reservations[i].cancelled # Null
    /\ occurrences["o1"].cancelled # Null \/ events["e1"].cancelled # Null
    /\ LET response == ReportsView_get("wu1", NoDate, NoDate, "up")
       IN /\ response.reservations_by_event = << [name |-> 1, count |-> 2] >>
          /\ response.reservations_by_earnings = << [name |-> 1, earnings |-> 2000] >>
          /\ response.reservations_by_month[Month(OccurrenceStart("o1"))].count = 2

\* Every winery is in exactly one of the public listing and the pending listing,
\* the public one when its available_since is set; the admin's approve request
\* puts any winery into the public listing, and nobody else's changes a row.
ApprovalGate ==
    /\ \A pk \in 1..Len(wineries) :
           /\ (pk \in WineryView_queryset) # (pk \in WineryApprovalView_queryset)
           /\ pk \in WineryView_queryset <=> wineries[pk].available_since # Null
    /\ \A pk \in 1..Len(wineries) :
           WineryApprovalView_approve("admin", pk).wineries[pk].available_since # Null
    /\ \A user \in Users, pk \in 1..Len(wineries) :
           WineryApprovalView_approve(user, pk).wineries = wineries

\* C25: available_since is the approval gate: in every state each winery is
\* listed in exactly one of the public listing (available_since set) and the
\* pending listing (available_since null); a winery just created is pending, the
\* admin's approve makes it approved, and no step returns an approved winery to
\* pending.
C25_ApprovalGate ==
    /\ []ApprovalGate
    /\ [][ /\ Len(wineries') > Len(wineries) =>
                 wineries'[Len(wineries')].available_since = Null
           /\ \A pk \in 1..Len(wineries) :
                 wineries[pk].available_since # Null
                     => /\ pk <= Len(wineries')
                        /\ wineries'[pk].available_since # Null ]_vars

\* Of three wineries the first two were approved, one after the other, and are
\* listed in public; the third is still pending.
C25_Witness ==
    /\ Len(wineries) = 3
    /\ WineryView_queryset = {1, 2}
    /\ WineryApprovalView_queryset = {3}
    /\ wineries[1].available_since = 1
    /\ wineries[2].available_since = 2
    /\ now = MaxTime

====
